---- MODULE Spec2Model ----
(***************************************************************************)
(* Model of the three Google Business Profile collectors                   *)
(*   daily_impressions.py, keywords_collector.py,                          *)
(*   location_status_collector.py                                          *)
(* Each collector authenticates, lists locations with a cursor-paginated   *)
(* fetch, collects a payload per location, transforms it to rows and       *)
(* writes the rows to a BigQuery table with delete-then-insert.            *)
(*                                                                         *)
(* Abstractions: a calendar date is a small integer (the clock `now` is    *)
(* the UTC date and only moves forward); a warehouse row is reduced to its *)
(* partition column (`key`) and the location it belongs to (`ent`); the    *)
(* warehouse table is a multiset of rows.                                  *)
(***************************************************************************)
EXTENDS Integers, Sequences, FiniteSets, TLC

VARIABLES
    pipeline,   \* which collector runs: "impressions" | "keywords" | "status"
    now,        \* current UTC date read by datetime.utcnow().date()
    wh,         \* warehouse table: row -> number of copies
    rows,       \* the batch handed to write_to_bigquery
    pc,         \* control position of main / write_to_bigquery / the fetch loop
    result,     \* value returned by main: [status, code], or NoResult
    log,        \* warehouse statements issued by the current call of the loader
    calls,      \* number of calls of write_to_bigquery started (loader harness)
    wh0,        \* warehouse at the start of the current loader call
    wh1,        \* warehouse when the first loader call returned
    pageToken,  \* params['pageToken'] of the running fetch loop (0: not set)
    acc,        \* accumulator of the running fetch loop (all_locations / all_keywords)
    reqs,       \* cursors carried by the requests the fetch loop issued, in order
    remK,       \* simulated remote: number of pages
    remN,       \* simulated remote: items per page
    remFail,    \* simulated remote: page whose request fails (0: none)
    remRepeat,  \* simulated remote: TRUE when every page lists the items of page 1 again
    locations,  \* main: the listed locations
    idx,        \* main: index of the next location / record to process
    all_data,   \* main: records accumulated over the locations
    entReqs,    \* main: number of per-location requests issued in this run
    lastOk,     \* main: FALSE when the program's latest step was a failed per-location fetch
    processed,  \* main: number of locations whose fetch and normalize steps ended
    withData,   \* main (keywords): locations_with_data
    summary,    \* main: the counts in the dict returned with code 200
    cpc,        \* two concurrent loader calls: control position of each
    crows,      \* two concurrent loader calls: batch of each
    cdel,       \* two concurrent loader calls: TRUE once the call's DELETE has completed
    exclusive,  \* two concurrent loader calls: TRUE when a scheduler lock serializes them
    nin,        \* normalizer under study: its input
    nout,       \* normalizer under study: its output
    npc         \* normalizer under study: "ready" | "returned" | "raised"

vars == <<pipeline, now, wh, rows, pc, result, log, calls, wh0, wh1,
          pageToken, acc, reqs, remK, remN, remFail, remRepeat,
          locations, idx, all_data, entReqs, lastOk, processed, withData, summary,
          cpc, crows, cdel, exclusive, nin, nout, npc>>

loadVars  == <<wh, rows, log, calls, wh0, wh1>>
fetchVars == <<pageToken, acc, reqs, remK, remN, remFail, remRepeat>>
mainVars  == <<locations, idx, all_data, entReqs, lastOk, processed, result>>
sideVars  == <<cpc, crows, cdel, exclusive, nin, nout, npc>>

----------------------------------------------------------------------------
(* Bounds *)
MaxDate      == 2   \* dates are 1..MaxDate
MaxEnts      == 2   \* locations are 1..MaxEnts
MaxBatch     == 2   \* longest batch of the loader harness; most keyword records of a run
MaxInitCount == 1   \* most copies of one row in the initial warehouse
MaxPages     == 3   \* most pages the simulated remote serves
MaxItems     == 2   \* most items on one page

Pipelines == {"impressions", "keywords", "status"}
Dates     == 1..MaxDate
Ents      == 1..MaxEnts
Rows      == [key : Dates, ent : Ents]
NoResult  == [status |-> "none", code |-> 0]
NoSummary == [none |-> 0]

SeqsUpTo(S, n) == UNION {[1..m -> S] : m \in 0..n}

\* the parts of the state a specification does not use
SideIdle ==
    /\ cpc = <<>> /\ crows = <<>> /\ cdel = <<>> /\ exclusive = TRUE
    /\ nin = <<>> /\ nout = <<>> /\ npc = "off"

\* The table before the program touches it: every partition is either empty
\* or holds each of its rows the same number of times.
InitialTables ==
    {[r \in Rows |-> IF r.key \in S THEN c ELSE 0] :
        S \in SUBSET Dates, c \in 1..MaxInitCount}

----------------------------------------------------------------------------
(* Warehouse table and batches *)

\* number of copies of row r in batch b
BatchCount(b, r) == Cardinality({i \in DOMAIN b : b[i] = r})

\* set(row[<partition column>] for row in rows)
BatchKeys(b) == {b[i].key : i \in DOMAIN b}

\* DELETE FROM table WHERE <partition column> IN scope
DeleteFrom(w, scope) == [r \in Rows |-> IF r.key \in scope THEN 0 ELSE w[r]]

\* client.insert_rows_json(table_ref, rows) without errors
InsertInto(w, b) == [r \in Rows |-> w[r] + BatchCount(b, r)]

\* The partition values the DELETE statement of each loader names.
\*   impressions: dates = set(row['date'] for row in rows)
\*   keywords:    collection_date = datetime.utcnow().date().isoformat()
\*   status:      check_date = rows[0]['check_date']
DeleteScope(p, b, t) ==
    CASE p = "impressions" -> BatchKeys(b)
      [] p = "keywords"    -> {t}
      [] p = "status"      -> {b[1].key}

----------------------------------------------------------------------------
(* write_to_bigquery *)

\* An empty batch still clears today's partition.
WriteEmptyDeletes ==
    /\ pc = "write"
    /\ rows = <<>>
    /\ pc' = "written"
    /\ log' = Append(log, [op |-> "delete", scope |-> {now}, ok |-> TRUE])
    /\ wh' = DeleteFrom(wh, {now})
    /\ wh1' = IF calls = 1 THEN DeleteFrom(wh, {now}) ELSE wh1
    /\ UNCHANGED <<withData, summary, sideVars, pipeline, now, rows, result, calls, wh0>>
    /\ UNCHANGED fetchVars
    /\ UNCHANGED <<locations, idx, all_data, entReqs, lastOk, processed>>

\* `if not rows: return`
WriteEmpty ==
    /\ pc = "write"
    /\ rows = <<>>
    /\ pc' = "written"
    /\ wh1' = IF calls = 1 THEN wh ELSE wh1
    /\ UNCHANGED <<withData, summary, sideVars, pipeline, now, wh, rows, result, log, calls, wh0>>
    /\ UNCHANGED fetchVars
    /\ UNCHANGED <<locations, idx, all_data, entReqs, lastOk, processed>>

\* client.query(delete_query).result(): the statement either completes, or
\* raises and the except clause re-raises (no insert is reached).
WriteDelete ==
    /\ pc = "write"
    /\ rows # <<>>
    /\ \E ok \in BOOLEAN :
         LET scope == DeleteScope(pipeline, rows, now) IN
         /\ log' = Append(log, [op |-> "delete", scope |-> scope, ok |-> ok])
         /\ wh' = IF ok THEN DeleteFrom(wh, scope) ELSE wh
         /\ pc' = IF ok THEN "insert" ELSE "raised"
    /\ UNCHANGED <<withData, summary, sideVars, pipeline, now, rows, result, calls, wh0, wh1>>
    /\ UNCHANGED fetchVars
    /\ UNCHANGED <<locations, idx, all_data, entReqs, lastOk, processed>>

\* A failed insert keeps the first row of the batch.
WriteInsertPartial ==
    /\ pc = "insert"
    /\ \E ok \in BOOLEAN :
         /\ log' = Append(log, [op |-> "insert", scope |-> BatchKeys(rows), ok |-> ok])
         /\ wh' = IF ok THEN InsertInto(wh, rows) ELSE InsertInto(wh, <<rows[1]>>)
         /\ pc' = IF ok THEN "written" ELSE "raised"
         /\ wh1' = IF ok /\ calls = 1 THEN InsertInto(wh, rows) ELSE wh1
    /\ UNCHANGED <<withData, summary, sideVars, pipeline, now, rows, result, calls, wh0>>
    /\ UNCHANGED fetchVars
    /\ UNCHANGED <<locations, idx, all_data, entReqs, lastOk, processed>>

\* errors = client.insert_rows_json(table_ref, rows); `if errors: raise`.
\* The request is all-or-nothing (skip_invalid_rows is left at its default).
WriteInsert ==
    /\ pc = "insert"
    /\ \E ok \in BOOLEAN :
         /\ log' = Append(log, [op |-> "insert", scope |-> BatchKeys(rows), ok |-> ok])
         /\ wh' = IF ok THEN InsertInto(wh, rows) ELSE wh
         /\ pc' = IF ok THEN "written" ELSE "raised"
         /\ wh1' = IF ok /\ calls = 1 THEN InsertInto(wh, rows) ELSE wh1
    /\ UNCHANGED <<withData, summary, sideVars, pipeline, now, rows, result, calls, wh0>>
    /\ UNCHANGED fetchVars
    /\ UNCHANGED <<locations, idx, all_data, entReqs, lastOk, processed>>

\* The UTC date advances between two steps of the program. The date is read
\* only while rows are built and when the loader builds its DELETE, so the
\* model lets it advance where a read can still follow.
Tick ==
    /\ now < MaxDate
    /\ pc \in {"transform", "write"}
    /\ now' = now + 1
    /\ UNCHANGED <<withData, summary, sideVars, pipeline, pc>>
    /\ UNCHANGED loadVars
    /\ UNCHANGED fetchVars
    /\ UNCHANGED mainVars

----------------------------------------------------------------------------
(* Loader harness: write_to_bigquery(batch) on an arbitrary table, called  *)
(* once and then once more with the same batch.                            *)

\* Batches the transform of pipeline p can have produced by date t:
\*   impressions rows carry the dates of the remote payload;
\*   keywords rows carry utcnow().date() read once per row;
\*   status rows all carry the one check_date read before the loop.
IsSorted(b) == \A i, j \in DOMAIN b : i < j => b[i].key <= b[j].key

ProducibleBatches(p, t) ==
    CASE p = "impressions" -> SeqsUpTo(Rows, MaxBatch)
      [] p = "keywords"    ->
           {b \in SeqsUpTo(Rows, MaxBatch) :
               IsSorted(b) /\ \A i \in DOMAIN b : b[i].key <= t}
      [] p = "status"      ->
           {b \in SeqsUpTo(Rows, MaxBatch) :
               \A i \in DOMAIN b : b[i].key = b[1].key /\ b[i].key <= t}

InitLoad ==
    /\ pipeline \in Pipelines
    /\ now \in Dates
    /\ wh \in InitialTables
    /\ rows \in ProducibleBatches(pipeline, now)
    /\ pc = "write"
    /\ result = NoResult
    /\ log = <<>>
    /\ calls = 1
    /\ wh0 = wh
    /\ wh1 = wh
    /\ pageToken = 0 /\ acc = <<>> /\ reqs = <<>>
    /\ remK = 1 /\ remN = 0 /\ remFail = 0 /\ remRepeat = FALSE
    /\ locations = <<>> /\ idx = 0 /\ all_data = <<>> /\ entReqs = 0
    /\ lastOk = TRUE /\ processed = 0
    /\ withData = 0 /\ summary = NoSummary
    /\ SideIdle

\* the caller invokes write_to_bigquery(rows) a second time
CallAgain ==
    /\ pc = "written"
    /\ calls = 1
    /\ calls' = 2
    /\ pc' = "write"
    /\ log' = <<>>
    /\ wh0' = wh
    /\ UNCHANGED <<withData, summary, sideVars, pipeline, now, wh, rows, result, wh1>>
    /\ UNCHANGED fetchVars
    /\ UNCHANGED <<locations, idx, all_data, entReqs, lastOk, processed>>

NextLoad == WriteEmpty \/ WriteDelete \/ WriteInsert \/ CallAgain \/ Tick

SpecLoad == InitLoad /\ [][NextLoad]_vars

----------------------------------------------------------------------------
(* The cursor-paginated fetch loop: get_all_locations (all three files),   *)
(* get_all_locations_with_status, get_search_keywords.                     *)

MaxReqs == MaxPages + 1   \* no run of the loop is followed beyond this many requests

\* The simulated remote serves pages 1..remK of remN items each; the cursor it
\* hands out with page j is j + 1; a request without cursor (0) asks for page 1.
\* The request for page remFail raises a requests.exceptions.RequestException.
\* The code takes the items as they come and never compares them: a remote
\* that repeats (remRepeat) lists the items of page 1 on every page.
PageOf(c) == IF c = 0 THEN 1 ELSE c

PageItems(j) == [i \in 1..remN |-> IF remRepeat THEN i ELSE (j - 1) * remN + i]

RemoteResponse(c) ==
    IF PageOf(c) = remFail
    THEN [ok |-> FALSE, items |-> <<>>, next |-> 0]
    ELSE [ok |-> TRUE, items |-> PageItems(PageOf(c)),
          next |-> IF PageOf(c) < remK THEN PageOf(c) + 1 ELSE 0]

\* The page is put in front of the accumulator.
LoopAccPrepend(a, resp) == IF resp.ok THEN resp.items \o a ELSE a

\* all_locations.extend(data['locations'])
LoopAcc(a, resp) == IF resp.ok THEN a \o resp.items ELSE a

\* The cursor of the response is dropped.
LoopTokenKept(tok, resp) == tok

\* if 'nextPageToken' in data: params['pageToken'] = data['nextPageToken']
LoopToken(tok, resp) == IF resp.ok /\ resp.next # 0 THEN resp.next ELSE tok

\* Only a failed request ends the loop.
LoopContinuesNoCursor(resp) == resp.ok

\* A failed request is sent again.
LoopContinuesRetry(resp) == ~resp.ok \/ resp.next # 0

\* the loop goes round again unless `break` (no cursor, or the except clause)
LoopContinues(resp) == resp.ok /\ resp.next # 0

\* one iteration of `while True:` in the fetch harness
FetchPage ==
    /\ pc = "fetching"
    /\ Len(reqs) < MaxReqs
    /\ LET resp == RemoteResponse(pageToken) IN
         /\ reqs' = Append(reqs, pageToken)
         /\ acc' = LoopAcc(acc, resp)
         /\ pageToken' = LoopToken(pageToken, resp)
         /\ pc' = IF LoopContinues(resp) THEN "fetching" ELSE "returned"
    /\ UNCHANGED <<withData, summary, sideVars, pipeline, now, remK, remN, remFail, remRepeat>>
    /\ UNCHANGED loadVars
    /\ UNCHANGED mainVars

InitFetch ==
    /\ pipeline \in Pipelines
    /\ now = 1
    /\ wh = [r \in Rows |-> 0]
    /\ rows = <<>>
    /\ pc = "fetching"
    /\ result = NoResult
    /\ log = <<>>
    /\ calls = 0
    /\ wh0 = wh
    /\ wh1 = wh
    /\ pageToken = 0 /\ acc = <<>> /\ reqs = <<>>
    /\ remK \in 1..MaxPages
    /\ remN \in 0..MaxItems
    /\ remFail \in 0..remK
    /\ remRepeat \in BOOLEAN
    /\ remRepeat => (remK >= 2 /\ remN >= 1)
    /\ locations = <<>> /\ idx = 0 /\ all_data = <<>> /\ entReqs = 0
    /\ lastOk = TRUE /\ processed = 0
    /\ withData = 0 /\ summary = NoSummary
    /\ SideIdle

NextFetch == FetchPage

SpecFetch == InitFetch /\ [][NextFetch]_vars

\* The loop keeps executing: requests.get has a timeout, so every iteration ends.
FairSpecFetch == SpecFetch /\ WF_vars(FetchPage)

----------------------------------------------------------------------------
(* main: one run of a collector *)

MaxKwPages == 2   \* most pages the keywords endpoint serves for one location
MaxKwItems == 1   \* most keyword records on one such page
MaxDailyRecords == 4   \* most records in all_daily_data of one impressions run

Success  == [status |-> "success", code |-> 200]
NoEnts   == [status |-> "error", code |-> 400]
Fatal    == [status |-> "error", code |-> 500]

\* The dates of the records process_metrics_data_daily returns for a payload:
\* daily_data is a dict keyed by date and `for date_str, metrics in
\* daily_data.items()` yields the dates in the order in which they first
\* appear in the payload, each once.
DailyRecordDates ==
    {ds \in SeqsUpTo(Dates, MaxDate) : \A i, j \in DOMAIN ds : i # j => ds[i] # ds[j]}

\* A credential failure shows only at the first listing request.
AuthenticateListsFirst ==
    /\ pc = "start"
    /\ \E ok \in BOOLEAN :
         /\ pc' = IF ok THEN "listing" ELSE "raised"
         /\ reqs' = IF ok THEN reqs ELSE Append(reqs, pageToken)
    /\ UNCHANGED <<withData, summary, sideVars, pipeline, now>>
    /\ UNCHANGED loadVars
    /\ UNCHANGED <<pageToken, acc, remK, remN, remFail, remRepeat>>
    /\ UNCHANGED mainVars

\* credentials = get_credentials(): default() or refresh() may raise
Authenticate ==
    /\ pc = "start"
    /\ \E ok \in BOOLEAN : pc' = IF ok THEN "listing" ELSE "raised"
    /\ UNCHANGED <<withData, summary, sideVars, pipeline, now>>
    /\ UNCHANGED loadVars
    /\ UNCHANGED fetchVars
    /\ UNCHANGED mainVars

\* The check for an empty list is missing.
ListPageNoCheck ==
    /\ pc = "listing"
    /\ Len(reqs) < MaxReqs
    /\ LET resp == RemoteResponse(pageToken) IN
         /\ reqs' = Append(reqs, pageToken)
         /\ IF LoopContinues(resp)
            THEN /\ acc' = LoopAcc(acc, resp)
                 /\ pageToken' = LoopToken(pageToken, resp)
                 /\ UNCHANGED <<pc, locations, idx, result>>
            ELSE /\ locations' = LoopAcc(acc, resp)
                 /\ acc' = <<>>
                 /\ pageToken' = 0
                 /\ idx' = 1
                 /\ result' = result
                 /\ pc' = IF pipeline = "status" THEN "transform" ELSE "entities"
    /\ UNCHANGED <<withData, summary, sideVars, pipeline, now, remK, remN, remFail, remRepeat, all_data, entReqs, lastOk, processed>>
    /\ UNCHANGED loadVars

\* A failed listing request is not caught.
ListPageFailRaises ==
    /\ pc = "listing"
    /\ Len(reqs) < MaxReqs
    /\ LET resp == RemoteResponse(pageToken) IN
         /\ reqs' = Append(reqs, pageToken)
         /\ IF LoopContinues(resp)
            THEN /\ acc' = LoopAcc(acc, resp)
                 /\ pageToken' = LoopToken(pageToken, resp)
                 /\ UNCHANGED <<pc, locations, idx, result>>
            ELSE /\ locations' = LoopAcc(acc, resp)
                 /\ acc' = <<>>
                 /\ pageToken' = 0
                 /\ idx' = 1
                 /\ IF ~resp.ok
                    THEN result' = result /\ pc' = "raised"
                    ELSE IF Len(LoopAcc(acc, resp)) = 0
                    THEN result' = NoEnts /\ pc' = "done"
                    ELSE /\ result' = result
                         /\ pc' = IF pipeline = "status" THEN "transform" ELSE "entities"
    /\ UNCHANGED <<withData, summary, sideVars, pipeline, now, remK, remN, remFail, remRepeat, all_data, entReqs, lastOk, processed>>
    /\ UNCHANGED loadVars

\* locations = get_all_locations(credentials): one iteration of its loop and,
\* when the loop ends, `if len(locations) == 0: return {...error...}, 400`
ListPage ==
    /\ pc = "listing"
    /\ Len(reqs) < MaxReqs
    /\ LET resp == RemoteResponse(pageToken) IN
         /\ reqs' = Append(reqs, pageToken)
         /\ IF LoopContinues(resp)
            THEN /\ acc' = LoopAcc(acc, resp)
                 /\ pageToken' = LoopToken(pageToken, resp)
                 /\ UNCHANGED <<pc, locations, idx, result>>
            ELSE /\ locations' = LoopAcc(acc, resp)
                 /\ acc' = <<>>
                 /\ pageToken' = 0
                 /\ idx' = 1
                 /\ IF Len(LoopAcc(acc, resp)) = 0
                    THEN result' = NoEnts /\ pc' = "done"
                    ELSE /\ result' = result
                         /\ pc' = IF pipeline = "status" THEN "transform" ELSE "entities"
    /\ UNCHANGED <<withData, summary, sideVars, pipeline, now, remK, remN, remFail, remRepeat, all_data, entReqs, lastOk, processed>>
    /\ UNCHANGED loadVars

\* impressions, one iteration of `for idx, location in enumerate(locations, 1)`:
\* `location_name = location['name']` raises KeyError for a listed location
\* without a name, before the request ("noname");
\* get_performance_metrics returns None on a RequestException, else the payload;
\* process_metrics_data_daily makes one record per date of the payload and has
\* no except clause: a date without month/day or a value int() rejects raises.
EntityMetrics ==
    /\ pc = "entities"
    /\ pipeline = "impressions"
    /\ idx <= Len(locations)
    /\ \E outcome \in {"noname", "fail", "raise", "payload"}, ds \in DailyRecordDates :
         LET raises == outcome \in {"noname", "raise"} IN
         /\ outcome # "payload" => ds = <<>>
         /\ Len(all_data) + Len(ds) <= MaxDailyRecords
         /\ entReqs' = IF outcome = "noname" THEN entReqs ELSE entReqs + 1
         /\ all_data' = all_data \o
              [i \in 1..Len(ds) |->
                  [key |-> ds[i], ent |-> locations[idx], valid |-> TRUE]]
         /\ pc' = IF raises THEN "raised"
                  ELSE IF idx = Len(locations) THEN "transform" ELSE "entities"
         /\ idx' = IF raises THEN idx
                   ELSE IF idx = Len(locations) THEN 1 ELSE idx + 1
         /\ lastOk' = (outcome # "fail")
         /\ processed' = IF raises THEN processed ELSE processed + 1
    /\ UNCHANGED <<withData, summary, sideVars, pipeline, now, locations, result>>
    /\ UNCHANGED loadVars
    /\ UNCHANGED fetchVars

\* keywords, one step of the iteration of `for idx, location in
\* enumerate(locations, 1)` for location idx:
\*   `location_name = location['name']` raises KeyError for a listed location
\*   without a name, before any request;
\*   get_search_keywords(credentials, location_name): one iteration of its
\*   loop; when the loop ends, `if keywords:` counts the location, tags the
\*   records with the location and extends all_keywords_data with them. The
\*   tagging `keyword_record['location_name'] = ...` raises TypeError for a
\*   record that is not a dict. Nothing in the loop catches either exception.
\* A record is valid when its impressions resolve to non-zero and its keyword
\* resolves to something other than 'UNKNOWN'.
KeywordsPage ==
    /\ pc = "entities"
    /\ pipeline = "keywords"
    /\ idx <= Len(locations)
    /\ \/ /\ pageToken = 0
          /\ pc' = "raised"
          /\ lastOk' = TRUE
          /\ UNCHANGED <<entReqs, acc, pageToken, idx, all_data, processed, withData>>
       \/ /\ entReqs' = entReqs + 1
          /\ \E ok \in BOOLEAN, n \in 0..MaxKwItems, more \in BOOLEAN, v \in BOOLEAN,
                tagged \in BOOLEAN :
               LET page == PageOf(pageToken)
                   resp == [ok |-> ok,
                            items |-> [i \in 1..n |->
                                         [key |-> 0, ent |-> locations[idx], valid |-> v]],
                            next |-> IF more THEN page + 1 ELSE 0]
               IN
               /\ more => page < MaxKwPages
               /\ Len(all_data) + Len(acc) + n <= MaxBatch
               /\ ~ok => (n = 0 /\ ~more /\ v)
               /\ n = 0 => v
               /\ ~tagged => (~LoopContinues(resp) /\ LoopAcc(acc, resp) # <<>>)
               /\ lastOk' = ok
               /\ IF LoopContinues(resp)
                  THEN /\ acc' = LoopAcc(acc, resp)
                       /\ pageToken' = LoopToken(pageToken, resp)
                       /\ UNCHANGED <<pc, idx, all_data, processed, withData>>
                  ELSE /\ withData' = IF LoopAcc(acc, resp) # <<>>
                                      THEN withData + 1 ELSE withData
                       /\ acc' = <<>>
                       /\ pageToken' = 0
                       /\ IF tagged
                          THEN /\ processed' = processed + 1
                               /\ all_data' = all_data \o LoopAcc(acc, resp)
                               /\ pc' = IF idx = Len(locations)
                                        THEN "transform" ELSE "entities"
                               /\ idx' = IF idx = Len(locations) THEN 1 ELSE idx + 1
                          ELSE /\ pc' = "raised"
                               /\ UNCHANGED <<processed, all_data, idx>>
    /\ UNCHANGED <<summary, sideVars, pipeline, now, locations, result, reqs, remK, remN, remFail, remRepeat>>
    /\ UNCHANGED loadVars

\* impressions, transform_to_bigquery_rows(all_daily_data): one row per record,
\* carrying the record's date; datetime.strptime raises on a record whose
\* date is not a calendar date
ImpTransform ==
    /\ pc = "transform"
    /\ pipeline = "impressions"
    /\ \E ok \in BOOLEAN :
         /\ ~ok => all_data # <<>>
         /\ rows' = IF ok
                    THEN [i \in 1..Len(all_data) |->
                            [key |-> all_data[i].key, ent |-> all_data[i].ent]]
                    ELSE rows
         /\ pc' = IF ok THEN "write" ELSE "raised"
    /\ lastOk' = TRUE
    /\ UNCHANGED <<withData, summary, sideVars, pipeline, now, wh, log, calls, wh0, wh1>>
    /\ UNCHANGED fetchVars
    /\ UNCHANGED <<locations, idx, all_data, entReqs, processed, result>>

\* keywords, transform_to_bigquery_rows: one iteration of `for record in
\* all_keywords_data`; a kept record gets collection_date = utcnow().date()
KwTransformRow ==
    /\ pc = "transform"
    /\ pipeline = "keywords"
    /\ idx <= Len(all_data)
    /\ rows' = IF all_data[idx].valid
               THEN Append(rows, [key |-> now, ent |-> all_data[idx].ent])
               ELSE rows
    /\ idx' = idx + 1
    /\ lastOk' = TRUE
    /\ UNCHANGED <<withData, summary, sideVars, pipeline, now, pc, wh, log, calls, wh0, wh1>>
    /\ UNCHANGED fetchVars
    /\ UNCHANGED <<locations, all_data, entReqs, processed, result>>

\* status, transform_to_bigquery_rows: one iteration of `for idx, loc in
\* enumerate(locations, 1)`; check_date was read once before the loop; the
\* Places lookup is made when the location has a place id and a key is set,
\* and its failure is caught inside get_rating_from_places_api. The iteration
\* has no except clause: a location whose 'metadata' is null raises
\* AttributeError before the lookup (metadata.get), one whose 'phoneNumbers'
\* is null raises it after the lookup, while the row is built.
StTransformRow ==
    /\ pc = "transform"
    /\ pipeline = "status"
    /\ idx <= Len(locations)
    /\ \E lookup \in BOOLEAN, built \in BOOLEAN :
         LET check_date == IF rows = <<>> THEN now ELSE rows[1].key IN
         /\ entReqs' = IF lookup THEN entReqs + 1 ELSE entReqs
         /\ rows' = IF built
                    THEN Append(rows, [key |-> check_date, ent |-> locations[idx]])
                    ELSE rows
         /\ idx' = IF built THEN idx + 1 ELSE idx
         /\ processed' = IF built THEN processed + 1 ELSE processed
         /\ pc' = IF built THEN pc ELSE "raised"
    /\ UNCHANGED <<withData, summary, sideVars, pipeline, now, wh, log, calls, wh0, wh1>>
    /\ UNCHANGED fetchVars
    /\ UNCHANGED <<locations, all_data, lastOk, result>>

\* The keywords main calls the loader without `if rows:`, and the loader
\* issues its DELETE for an empty batch.
TransformDoneDeletes ==
    /\ pc = "transform"
    /\ \/ pipeline = "keywords" /\ idx > Len(all_data)
       \/ pipeline = "status" /\ idx > Len(locations)
    /\ pc' = IF pipeline = "keywords" /\ rows = <<>> THEN "written" ELSE "write"
    /\ wh' = IF pipeline = "keywords" /\ rows = <<>> THEN DeleteFrom(wh, {now}) ELSE wh
    /\ log' = IF pipeline = "keywords" /\ rows = <<>>
              THEN Append(log, [op |-> "delete", scope |-> {now}, ok |-> TRUE])
              ELSE log
    /\ lastOk' = TRUE
    /\ UNCHANGED <<withData, summary, sideVars, pipeline, now>>
    /\ UNCHANGED <<rows, calls, wh0, wh1>>
    /\ UNCHANGED fetchVars
    /\ UNCHANGED <<locations, idx, all_data, entReqs, processed, result>>

\* The loader is called before the transform loop has ended.
TransformDoneEarly ==
    /\ pc = "transform"
    /\ pipeline \in {"keywords", "status"}
    /\ pc' = IF pipeline = "keywords" /\ rows = <<>> THEN "written" ELSE "write"
    /\ lastOk' = TRUE
    /\ UNCHANGED <<withData, summary, sideVars, pipeline, now>>
    /\ UNCHANGED loadVars
    /\ UNCHANGED fetchVars
    /\ UNCHANGED <<locations, idx, all_data, entReqs, processed, result>>

\* keywords and status: the transform loop has ended.
\*   keywords main: `if rows: write_to_bigquery(rows)` else only a warning
\*   status main:   write_to_bigquery(rows)
TransformDone ==
    /\ pc = "transform"
    /\ \/ pipeline = "keywords" /\ idx > Len(all_data)
       \/ pipeline = "status" /\ idx > Len(locations)
    /\ pc' = IF pipeline = "keywords" /\ rows = <<>> THEN "written" ELSE "write"
    /\ lastOk' = TRUE
    /\ UNCHANGED <<withData, summary, sideVars, pipeline, now>>
    /\ UNCHANGED loadVars
    /\ UNCHANGED fetchVars
    /\ UNCHANGED <<locations, idx, all_data, entReqs, processed, result>>

\* Every error result carries code 400.
MainExceptAs400 ==
    /\ pc = "raised"
    /\ result' = NoEnts
    /\ pc' = "done"
    /\ UNCHANGED <<withData, summary, sideVars, pipeline, now, locations, idx, all_data, entReqs, lastOk, processed>>
    /\ UNCHANGED loadVars
    /\ UNCHANGED fetchVars

\* except Exception as e: return {"status": "error", "message": str(e)}, 500
MainExcept ==
    /\ pc = "raised"
    /\ result' = Fatal
    /\ pc' = "done"
    /\ UNCHANGED <<withData, summary, sideVars, pipeline, now, locations, idx, all_data, entReqs, lastOk, processed>>
    /\ UNCHANGED loadVars
    /\ UNCHANGED fetchVars

\* the counts of locations and rows in the dict each main returns with code 200
\*   impressions: records_written, locations_processed
\*   keywords:    keywords_written, locations_processed, locations_with_data
\*   status:      locations_processed (= len(rows))
SummaryOf(p, written) ==
    CASE p = "impressions" ->
           [records_written |-> written, locations_processed |-> Len(locations)]
      [] p = "keywords" ->
           [keywords_written |-> written, locations_processed |-> Len(locations),
            locations_with_data |-> withData]
      [] p = "status" ->
           [locations_processed |-> written]

\* The count of rows written is the count of records before the transform.
MainReturnCountsRecords ==
    /\ pc = "written"
    /\ result' = Success
    /\ summary' = SummaryOf(pipeline, Len(all_data))
    /\ pc' = "done"
    /\ UNCHANGED <<withData, sideVars, pipeline, now, locations, idx, all_data, entReqs, lastOk, processed>>
    /\ UNCHANGED loadVars
    /\ UNCHANGED fetchVars

\* return {"status": "success", ...}, 200
MainReturn ==
    /\ pc = "written"
    /\ result' = Success
    /\ summary' = SummaryOf(pipeline, Len(rows))
    /\ pc' = "done"
    /\ UNCHANGED <<withData, sideVars, pipeline, now, locations, idx, all_data, entReqs, lastOk, processed>>
    /\ UNCHANGED loadVars
    /\ UNCHANGED fetchVars

\* A run starts on a table that holds each row at most once.
Init ==
    /\ pipeline \in Pipelines
    /\ now = 1
    /\ wh \in {t \in InitialTables : \A r \in Rows : t[r] <= 1}
    /\ rows = <<>>
    /\ pc = "start"
    /\ result = NoResult
    /\ log = <<>>
    /\ calls = 1
    /\ wh0 = wh
    /\ wh1 = wh
    /\ pageToken = 0 /\ acc = <<>> /\ reqs = <<>>
    /\ remK \in 1..MaxPages
    /\ remN \in 0..MaxItems
    /\ remK * remN <= MaxEnts
    /\ remFail \in 0..remK
    /\ remRepeat \in BOOLEAN
    /\ remRepeat => (remK >= 2 /\ remN >= 1)
    /\ locations = <<>> /\ idx = 0 /\ all_data = <<>> /\ entReqs = 0
    /\ lastOk = TRUE /\ processed = 0
    /\ withData = 0 /\ summary = NoSummary
    /\ SideIdle

Step ==
    \/ Authenticate
    \/ ListPage
    \/ EntityMetrics
    \/ KeywordsPage
    \/ ImpTransform
    \/ KwTransformRow
    \/ StTransformRow
    \/ TransformDone
    \/ WriteEmpty
    \/ WriteDelete
    \/ WriteInsert
    \/ MainReturn
    \/ MainExcept

Next == Step \/ Tick

Spec == Init /\ [][Next]_vars

\* The run keeps executing: every request has a timeout, every step ends.
FairSpec == Spec /\ WF_vars(Step)

----------------------------------------------------------------------------
(* Two calls of write_to_bigquery on one table *)

MaxConcBatch == 1   \* most rows in the batch of a concurrent loader call

Procs == {1, 2}

\* the variables of one run of main, which the specifications below leave alone
progVars == <<rows, pc, result, log, calls, wh0, wh1, fetchVars,
              locations, idx, all_data, entReqs, lastOk, processed, withData, summary>>

MainIdle ==
    /\ rows = <<>> /\ pc = "off" /\ result = NoResult
    /\ log = <<>> /\ calls = 0 /\ wh0 = wh /\ wh1 = wh
    /\ pageToken = 0 /\ acc = <<>> /\ reqs = <<>>
    /\ remK = 1 /\ remN = 0 /\ remFail = 0 /\ remRepeat = FALSE
    /\ locations = <<>> /\ idx = 0 /\ all_data = <<>> /\ entReqs = 0
    /\ lastOk = TRUE /\ processed = 0
    /\ withData = 0 /\ summary = NoSummary

\* a call is active from its start until it has returned or raised
Active(p) == cpc[p] \in {"write", "insert", "written"}

\* write_to_bigquery(rows) is entered; under the scheduler lock only when no
\* other call is active. `if not rows: return`
ConcStart(p) ==
    /\ cpc[p] = "idle"
    /\ exclusive => \A q \in Procs \ {p} : ~Active(q)
    /\ cpc' = [cpc EXCEPT ![p] = IF crows[p] = <<>> THEN "returned" ELSE "write"]
    /\ UNCHANGED <<pipeline, now, wh, crows, cdel, exclusive, nin, nout, npc>>
    /\ UNCHANGED progVars

\* client.query(delete_query).result()
ConcDelete(p) ==
    /\ cpc[p] = "write"
    /\ \E ok \in BOOLEAN :
         /\ wh' = IF ok THEN DeleteFrom(wh, DeleteScope(pipeline, crows[p], now)) ELSE wh
         /\ cpc' = [cpc EXCEPT ![p] = IF ok THEN "insert" ELSE "raised"]
         /\ cdel' = [cdel EXCEPT ![p] = ok]
    /\ UNCHANGED <<pipeline, now, crows, exclusive, nin, nout, npc>>
    /\ UNCHANGED progVars

\* The insert leaves out the first row of the batch and reports no error.
ConcInsertDrops(p) ==
    /\ cpc[p] = "insert"
    /\ \E ok \in BOOLEAN :
         /\ wh' = IF ok THEN InsertInto(wh, Tail(crows[p])) ELSE wh
         /\ cpc' = [cpc EXCEPT ![p] = IF ok THEN "written" ELSE "raised"]
    /\ UNCHANGED <<pipeline, now, crows, cdel, exclusive, nin, nout, npc>>
    /\ UNCHANGED progVars

\* errors = client.insert_rows_json(table_ref, rows); `if errors: raise`
ConcInsert(p) ==
    /\ cpc[p] = "insert"
    /\ \E ok \in BOOLEAN :
         /\ wh' = IF ok THEN InsertInto(wh, crows[p]) ELSE wh
         /\ cpc' = [cpc EXCEPT ![p] = IF ok THEN "written" ELSE "raised"]
    /\ UNCHANGED <<pipeline, now, crows, cdel, exclusive, nin, nout, npc>>
    /\ UNCHANGED progVars

\* logger.info(f"Successfully wrote {len(rows)} rows to BigQuery"); the call
\* returns and its run reports success
ConcReturn(p) ==
    /\ cpc[p] = "written"
    /\ cpc' = [cpc EXCEPT ![p] = "returned"]
    /\ UNCHANGED <<pipeline, now, wh, crows, cdel, exclusive, nin, nout, npc>>
    /\ UNCHANGED progVars

InitConc ==
    /\ pipeline = "impressions"
    /\ now = 1
    /\ wh \in {t \in InitialTables : \A r \in Rows : t[r] <= 1}
    /\ MainIdle
    /\ cpc = [p \in Procs |-> "idle"]
    /\ cdel = [p \in Procs |-> FALSE]
    /\ crows \in [Procs -> SeqsUpTo(Rows, MaxConcBatch)]
    /\ exclusive \in BOOLEAN
    /\ nin = <<>> /\ nout = <<>> /\ npc = "off"

NextConc ==
    \E p \in Procs :
        \/ ConcStart(p)
        \/ ConcDelete(p)
        \/ ConcInsert(p)
        \/ ConcReturn(p)

SpecConc == InitConc /\ [][NextConc]_vars

----------------------------------------------------------------------------
(* impressions: process_metrics_data_daily and transform_to_bigquery_rows *)

MaxPoints == 2   \* most dated values in one metrics payload
MaxVal    == 1   \* largest metric value in a payload

\* the metrics get_performance_metrics asks for
Metrics ==
    {"BUSINESS_IMPRESSIONS_DESKTOP_MAPS", "BUSINESS_IMPRESSIONS_DESKTOP_SEARCH",
     "BUSINESS_IMPRESSIONS_MOBILE_MAPS", "BUSINESS_IMPRESSIONS_MOBILE_SEARCH",
     "BUSINESS_CONVERSATIONS", "BUSINESS_DIRECTION_REQUESTS", "CALL_CLICKS",
     "WEBSITE_CLICKS", "BUSINESS_BOOKINGS", "BUSINESS_FOOD_ORDERS"}

\* the 'value' of a dated value: missing, a text int() rejects, or a number
RawValues ==
    {[form |-> "absent", n |-> 0], [form |-> "text", n |-> 0]} \cup
    {[form |-> "number", n |-> k] : k \in 1..MaxVal}

\* one dated value of one metric's time series, in the order the nested loops
\* of process_metrics_data_daily visit them
Points == [metric : Metrics, date : Dates, value : RawValues]

\* int(dated_value.get('value', 0)), for a value int() accepts
IntOf(v) == IF v.form = "absent" THEN 0 ELSE v.n

\* Every dated value starts the record of its date afresh.
PutMetricFresh(old, m, v) == [x \in {m} |-> v]

\* daily_data[date_str][metric] = value
PutMetric(old, m, v) ==
    [x \in (DOMAIN old) \cup {m} |-> IF x = m THEN v ELSE old[x]]

\* if date_str not in daily_data: daily_data[date_str] = {}
DateOrder(order, seen, d) == IF seen THEN order ELSE Append(order, d)

\* daily_data after the first n dated values: the dates in insertion order and
\* the metrics recorded for each
RECURSIVE DailyData(_, _)
DailyData(payload, n) ==
    IF n = 0 THEN [order |-> <<>>, data |-> <<>>]
    ELSE LET prev == DailyData(payload, n - 1)
             pt   == payload[n]
             seen == pt.date \in DOMAIN prev.data
             old  == IF seen THEN prev.data[pt.date] ELSE <<>>
         IN  [order |-> DateOrder(prev.order, seen, pt.date),
              data  |-> [d \in (DOMAIN prev.data) \cup {pt.date} |->
                            IF d = pt.date
                            THEN PutMetric(old, pt.metric, IntOf(pt.value))
                            ELSE prev.data[d]]]

\* int() raises ValueError on a value that is not a number
ProcessRaises(payload) == \E i \in DOMAIN payload : payload[i].value.form = "text"

\* process_metrics_data_daily(metrics_response): one record per date
ProcessMetricsDataDaily(payload) ==
    LET dd == DailyData(payload, Len(payload)) IN
    [i \in 1..Len(dd.order) |-> [date |-> dd.order[i], metrics |-> dd.data[dd.order[i]]]]

\* record.get(metric, 0)
Get(record, m) == IF m \in DOMAIN record.metrics THEN record.metrics[m] ELSE 0

TotalImpressions(record) ==
    Get(record, "BUSINESS_IMPRESSIONS_DESKTOP_MAPS") +
    Get(record, "BUSINESS_IMPRESSIONS_DESKTOP_SEARCH") +
    Get(record, "BUSINESS_IMPRESSIONS_MOBILE_MAPS") +
    Get(record, "BUSINESS_IMPRESSIONS_MOBILE_SEARCH")

\* Bookings and food orders are counted as actions.
TotalActionsAll(record) ==
    Get(record, "WEBSITE_CLICKS") +
    Get(record, "CALL_CLICKS") +
    Get(record, "BUSINESS_DIRECTION_REQUESTS") +
    Get(record, "BUSINESS_CONVERSATIONS") +
    Get(record, "BUSINESS_BOOKINGS") +
    Get(record, "BUSINESS_FOOD_ORDERS")

TotalActions(record) ==
    Get(record, "WEBSITE_CLICKS") +
    Get(record, "CALL_CLICKS") +
    Get(record, "BUSINESS_DIRECTION_REQUESTS") +
    Get(record, "BUSINESS_CONVERSATIONS")

\* the row transform_to_bigquery_rows builds for one record
ImpRow(record) ==
    [date                       |-> record.date,
     impressions_desktop_maps   |-> Get(record, "BUSINESS_IMPRESSIONS_DESKTOP_MAPS"),
     impressions_desktop_search |-> Get(record, "BUSINESS_IMPRESSIONS_DESKTOP_SEARCH"),
     impressions_mobile_maps    |-> Get(record, "BUSINESS_IMPRESSIONS_MOBILE_MAPS"),
     impressions_mobile_search  |-> Get(record, "BUSINESS_IMPRESSIONS_MOBILE_SEARCH"),
     conversations              |-> Get(record, "BUSINESS_CONVERSATIONS"),
     direction_requests         |-> Get(record, "BUSINESS_DIRECTION_REQUESTS"),
     call_clicks                |-> Get(record, "CALL_CLICKS"),
     website_clicks             |-> Get(record, "WEBSITE_CLICKS"),
     bookings                   |-> Get(record, "BUSINESS_BOOKINGS"),
     food_orders                |-> Get(record, "BUSINESS_FOOD_ORDERS"),
     total_impressions          |-> TotalImpressions(record),
     total_actions              |-> TotalActions(record)]

\* the column of a row that holds a metric
Column(row, m) ==
    CASE m = "BUSINESS_IMPRESSIONS_DESKTOP_MAPS"   -> row.impressions_desktop_maps
      [] m = "BUSINESS_IMPRESSIONS_DESKTOP_SEARCH" -> row.impressions_desktop_search
      [] m = "BUSINESS_IMPRESSIONS_MOBILE_MAPS"    -> row.impressions_mobile_maps
      [] m = "BUSINESS_IMPRESSIONS_MOBILE_SEARCH"  -> row.impressions_mobile_search
      [] m = "BUSINESS_CONVERSATIONS"              -> row.conversations
      [] m = "BUSINESS_DIRECTION_REQUESTS"         -> row.direction_requests
      [] m = "CALL_CLICKS"                         -> row.call_clicks
      [] m = "WEBSITE_CLICKS"                      -> row.website_clicks
      [] m = "BUSINESS_BOOKINGS"                   -> row.bookings
      [] m = "BUSINESS_FOOD_ORDERS"                -> row.food_orders

\* transform_to_bigquery_rows(process_metrics_data_daily(payload)) for the
\* payload of one location
NormalizeImp ==
    /\ npc = "ready"
    /\ IF ProcessRaises(nin)
       THEN npc' = "raised" /\ nout' = nout
       ELSE /\ npc' = "returned"
            /\ nout' = LET recs == ProcessMetricsDataDaily(nin)
                       IN  [i \in DOMAIN recs |-> ImpRow(recs[i])]
    /\ UNCHANGED <<pipeline, now, wh, cpc, crows, cdel, exclusive, nin>>
    /\ UNCHANGED progVars

InitImp ==
    /\ pipeline = "impressions"
    /\ now = 1
    /\ wh = [r \in Rows |-> 0]
    /\ MainIdle
    /\ cpc = <<>> /\ crows = <<>> /\ cdel = <<>> /\ exclusive = TRUE
    /\ \E n \in 0..MaxPoints : nin \in [1..n -> Points]
    /\ nout = <<>>
    /\ npc = "ready"

NextImp == NormalizeImp

SpecImp == InitImp /\ [][NextImp]_vars

----------------------------------------------------------------------------
(* status: determine_location_status and the row of one location *)

MaxRating  == 2   \* largest rating the Places lookup returns
MaxReviews == 1   \* largest review count the Places lookup returns

\* metadata['hasVoiceOfMerchant']: missing, or a JSON boolean
FlagForms == {"absent", "true", "false"}

\* metadata['mapsUri'] and metadata['placeId']: missing, null, '', or a text
TextForms == {"absent", "null", "empty", "text"}

\* loc['phoneNumbers']: missing, null, or an object
PhoneForms == {"absent", "null", "dict"}

\* loc['metadata']: an object (a missing one is read as {}), or null; the keys
\* of a null metadata are not there to be read
Metadatas ==
    [form : {"dict"}, hasVoiceOfMerchant : FlagForms, mapsUri : TextForms,
     placeId : TextForms] \cup
    {[form |-> "null", hasVoiceOfMerchant |-> "absent", mapsUri |-> "absent",
      placeId |-> "absent"]}

\* bool(x) of a missing (None), null or empty value is False
Truthy(t) == t = "text"

\* what the Places API answers when get_rating_from_places_api asks it: a
\* request error, a status other than OK, or a result with or without a rating
Lookups ==
    {[kind |-> k, rated |-> FALSE, rating |-> 0, reviews |-> 0] :
        k \in {"error", "not_ok"}} \cup
    {[kind |-> "ok", rated |-> FALSE, rating |-> 0, reviews |-> n] : n \in 0..MaxReviews} \cup
    {[kind |-> "ok", rated |-> TRUE, rating |-> r, reviews |-> n] :
        r \in 0..MaxRating, n \in 0..MaxReviews}

\* `if place_id and api_key:` the lookup is made; the line is not reached when
\* metadata is null
Asked(loc) ==
    loc.metadata.form = "dict" /\ Truthy(loc.metadata.placeId) /\ loc.api_key

\* the loop body raises AttributeError: `metadata.get` in
\* determine_location_status on a null metadata, before the lookup, or
\* `loc.get('phoneNumbers', {}).get` on a null phoneNumbers, after it
RowRaises(loc) == loc.metadata.form = "null" \/ loc.phoneNumbers = "null"

\* `rating is not None`: the lookup was made, returned status OK and its
\* result has a rating
RatingKnown(loc) == Asked(loc) /\ loc.places.kind = "ok" /\ loc.places.rated

\* Any mapsUri key counts as published, whatever its value.
HasMapsUriPresent(metadata) == metadata.mapsUri # "absent"

\* has_maps_uri = bool(metadata.get('mapsUri'))
HasMapsUri(metadata) == Truthy(metadata.mapsUri)

\* has_voice_of_merchant = metadata.get('hasVoiceOfMerchant', False)
HasVoiceOfMerchant(metadata) == metadata.hasVoiceOfMerchant = "true"

determine_location_status(metadata) ==
    LET has_voice_of_merchant == HasVoiceOfMerchant(metadata)
        has_maps_uri          == HasMapsUri(metadata)
    IN  [verification_status |-> IF has_voice_of_merchant THEN "VERIFIED" ELSE "NOT VERIFIED",
         publish_status      |-> IF has_maps_uri THEN "PUBLISHED" ELSE "NOT PUBLISHED",
         overall_status      |->
             IF has_voice_of_merchant /\ has_maps_uri THEN "ACTIVE - Verified & Published"
             ELSE IF has_voice_of_merchant THEN "CLAIMED - Not Yet Published"
             ELSE IF has_maps_uri THEN "PUBLISHED - Not Claimed"
             ELSE "INACTIVE - Not Claimed/Published",
         is_verified         |-> has_voice_of_merchant,
         is_published        |-> has_maps_uri]

\* the body of the loop of transform_to_bigquery_rows for one location:
\* nin is the location's metadata and phoneNumbers, whether PLACES_API_KEY is
\* set, and what the Places API answers when asked;
\* get_rating_from_places_api catches the request error and returns None;
\* nothing in the loop or in the function catches the AttributeError of a null
\* metadata or phoneNumbers, and no row is appended then
StatusRow ==
    /\ npc = "ready"
    /\ IF RowRaises(nin)
       THEN npc' = "raised" /\ nout' = nout
       ELSE /\ LET status_info == determine_location_status(nin.metadata)
                   has_rating  == RatingKnown(nin)
               IN  nout' =
                     [overall_status      |-> status_info.overall_status,
                      verification_status |-> status_info.verification_status,
                      publish_status      |-> status_info.publish_status,
                      is_verified         |-> status_info.is_verified,
                      is_published        |-> status_info.is_published,
                      rating              |-> IF has_rating THEN nin.places.rating ELSE 0,
                      review_count        |-> IF Asked(nin) /\ nin.places.kind = "ok"
                                              THEN nin.places.reviews ELSE 0,
                      has_rating          |-> has_rating]
            /\ npc' = "returned"
    /\ UNCHANGED <<pipeline, now, wh, cpc, crows, cdel, exclusive, nin>>
    /\ UNCHANGED progVars

InitStatus ==
    /\ pipeline = "status"
    /\ now = 1
    /\ wh = [r \in Rows |-> 0]
    /\ MainIdle
    /\ cpc = <<>> /\ crows = <<>> /\ cdel = <<>> /\ exclusive = TRUE
    /\ nin \in [metadata : Metadatas,
                 phoneNumbers : PhoneForms,
                 api_key : BOOLEAN,
                 places : Lookups]
    /\ nout = <<>>
    /\ npc = "ready"

NextStatus == StatusRow

SpecStatus == InitStatus /\ [][NextStatus]_vars

----------------------------------------------------------------------------
(* keywords: extract_keyword_value, extract_impressions and
   transform_to_bigquery_rows *)

MaxRecs  == 2   \* most keyword records in one input
MaxKwVal == 1   \* largest impression count of a keyword record

\* keyword texts; a keyword can be the text 'UNKNOWN', which the transform
\* also uses as its marker for "no keyword"
KwStrings == {"pizza", "cafe", "UNKNOWN"}

\* record['searchKeyword']: missing, null, a dict without 'string', a dict
\* whose 'string' is null, a dict with 'string', or a plain text
SearchKeywords ==
    {[form |-> f, s |-> ""] : f \in {"absent", "null", "dict_empty", "dict_null"}} \cup
    {[form |-> f, s |-> x] : f \in {"dict", "plain"}, x \in KwStrings}

\* record['insightsValue']: missing, a dict with only 'threshold', a dict
\* whose 'value' is a number (or its decimal text), a text int() rejects or
\* null, or something that is not a dict
InsightsValues ==
    {[form |-> f, n |-> 0] :
        f \in {"absent", "threshold", "value_text", "value_null", "other"}} \cup
    {[form |-> "value", n |-> k] : k \in 0..MaxKwVal}

KwRecords == [searchKeyword : SearchKeywords, insightsValue : InsightsValues]

\* extract_keyword_value(record.get('searchKeyword', {})):
\*   a dict gives search_keyword.get('string', 'UNKNOWN'), which is the null
\*   value (written "null" here) when 'string' is null;
\*   anything else gives str(search_keyword), which is 'None' for null
extract_keyword_value(search_keyword) ==
    CASE search_keyword.form \in {"absent", "dict_empty"} -> "UNKNOWN"
      [] search_keyword.form = "dict_null" -> "null"
      [] search_keyword.form = "null"  -> "None"
      [] search_keyword.form = "dict"  -> search_keyword.s
      [] search_keyword.form = "plain" -> search_keyword.s

\* extract_impressions(record.get('insightsValue', {}))
extract_impressions(insights_value) ==
    CASE insights_value.form = "value" -> insights_value.n
      [] insights_value.form \in {"value_text", "value_null"} -> 0
      [] insights_value.form \in {"absent", "threshold", "other"} -> 0

\* if impressions == 0 or keyword == 'UNKNOWN': continue
Skip(keyword, impressions) == impressions = 0 \/ keyword = "UNKNOWN"

\* The UTC dates the clock shows at the n iterations of a loop entered at
\* date t: the clock only moves forward.
ClockReads(n, t) ==
    {ts \in [1..n -> t..MaxDate] : \A i, j \in 1..n : i <= j => ts[i] <= ts[j]}

\* rows after the first n iterations of `for record in all_keywords_data`,
\* ts[i] being the date at iteration i: a kept record reads
\* datetime.utcnow().date() for its own collection_date
RECURSIVE KwRows(_, _, _)
KwRows(recs, n, ts) ==
    IF n = 0 THEN <<>>
    ELSE LET keyword     == extract_keyword_value(recs[n].searchKeyword)
             impressions == extract_impressions(recs[n].insightsValue)
             before      == KwRows(recs, n - 1, ts)
         IN  IF Skip(keyword, impressions) THEN before
             ELSE Append(before, [collection_date |-> ts[n],
                                  keyword         |-> keyword,
                                  impressions     |-> impressions])

\* transform_to_bigquery_rows(all_keywords_data); the clock is left at the
\* date of the last iteration
NormalizeKw ==
    /\ npc = "ready"
    /\ \E ts \in ClockReads(Len(nin), now) :
         /\ nout' = KwRows(nin, Len(nin), ts)
         /\ now' = IF nin = <<>> THEN now ELSE ts[Len(nin)]
    /\ npc' = "returned"
    /\ UNCHANGED <<pipeline, wh, cpc, crows, cdel, exclusive, nin>>
    /\ UNCHANGED progVars

InitKw ==
    /\ pipeline = "keywords"
    /\ now = 1
    /\ wh = [r \in Rows |-> 0]
    /\ MainIdle
    /\ cpc = <<>> /\ crows = <<>> /\ cdel = <<>> /\ exclusive = TRUE
    /\ \E n \in 0..MaxRecs : nin \in [1..n -> KwRecords]
    /\ nout = <<>>
    /\ npc = "ready"

NextKw == NormalizeKw

SpecKw == InitKw /\ [][NextKw]_vars

----------------------------------------------------------------------------
(* Properties *)

\* the listing loop of main has run and ended
ListingReturned == Len(reqs) > 0 /\ pc # "listing"

\* the items of pages 1..j of the simulated remote, in page order
ItemsUpTo(j) ==
    [n \in 1..(j * remN) |-> IF remRepeat THEN ((n - 1) % remN) + 1 ELSE n]

\* C1 (as claimed): Load idempotence. For every loader, once write_to_bigquery
\* has returned twice for the same non-empty batch, the rows of the batch's
\* partition keys are the same multiset as when it had returned once.
C1_LoadIdempotent ==
    (pc = "written" /\ calls = 2 /\ rows # <<>>) =>
        \A r \in Rows : r.key \in BatchKeys(rows) => wh[r] = wh1[r]

\* C2 (as claimed): Load partition isolation. During and after a call of any
\* loader, succeeding or failing, every row whose partition key is not a key of
\* the batch is in the table exactly as often as when the call started.
C2_PartitionIsolation ==
    \A r \in Rows : r.key \notin BatchKeys(rows) => wh[r] = wh0[r]

\* C3: Zero-entities fatal path. When the listing has returned an empty list,
\* the run has ended with status "error" and code 400, and it has issued no
\* per-location request, no delete and no insert; the table is untouched.
C3_ZeroEntities ==
    (ListingReturned /\ Len(locations) = 0) =>
        /\ pc = "done"
        /\ result = NoEnts
        /\ entReqs = 0
        /\ log = <<>>
        /\ wh = wh0

C3_Witness ==
    /\ ListingReturned /\ Len(locations) = 0
    /\ pc = "done" /\ result.code = 400
    /\ remFail = 0

\* C4: Pagination completeness. Against a remote serving remK pages of remN
\* items without failure, the first request carries no cursor, every later
\* request carries the cursor of the response before it, there are never more
\* than remK requests, and when the fetch returns it has issued exactly remK
\* requests and holds the remK * remN items in page order.
C4_PaginationComplete ==
    remFail = 0 =>
        /\ Len(reqs) <= remK
        /\ reqs # <<>> => reqs[1] = 0
        /\ \A j \in 1..(Len(reqs) - 1) : reqs[j + 1] = RemoteResponse(reqs[j]).next
        /\ pc = "returned" =>
              /\ Len(reqs) = remK
              /\ Len(acc) = remK * remN
              /\ acc = ItemsUpTo(remK)

C4_Witness ==
    /\ pc = "returned" /\ remFail = 0
    /\ remK >= 2 /\ remN >= 1
    /\ Len(acc) = remK * remN /\ Len(reqs) = remK

\* C5: Pagination partial failure. When the request for page remFail fails, the
\* fetch returns (it does not raise) with exactly the items of the pages
\* before it, and the failed request is the last one issued.
C5_PaginationPartial ==
    remFail > 0 =>
        /\ pc \in {"fetching", "returned"}
        /\ Len(reqs) <= remFail
        /\ pc = "returned" =>
              /\ acc = ItemsUpTo(remFail - 1)
              /\ Len(reqs) = remFail

C5_Witness ==
    /\ pc = "returned" /\ remFail >= 2 /\ remN >= 1
    /\ Len(acc) = (remFail - 1) * remN

\* C6: Result contract. Every run ends, and main returns nothing before it
\* ends; the result is one of (success, 200), (error, 400), (error, 500);
\* code 400 is returned exactly when the listing returned an empty list,
\* code 200 exactly with status "success", and every other error is code 500.
C6_ResultInv ==
    /\ (pc = "done") <=> (result # NoResult)
    /\ result \in {NoResult, Success, NoEnts, Fatal}
    /\ pc = "done" =>
          /\ (result.code = 400) <=> (ListingReturned /\ Len(locations) = 0)
          /\ (result.code = 200) <=> (result.status = "success")
          /\ (result.status = "error" /\ ~(ListingReturned /\ Len(locations) = 0))
                => result.code = 500
    /\ pc = "raised" => result = NoResult

C6_ResultContract == [](C6_ResultInv) /\ <>(pc = "done")

C6_Witness ==
    /\ pc = "done" /\ result = Fatal
    /\ ListingReturned /\ Len(locations) > 0

\* C7 (as claimed): Delete scope equals batch partition keys. Every DELETE a
\* loader issues names exactly the distinct partition keys of the batch.
C7_DeleteScopeIsBatchKeys ==
    \A i \in DOMAIN log :
        log[i].op = "delete" => log[i].scope = BatchKeys(rows)

\* C8 (as claimed): Replace postcondition. When a loader has returned for a
\* non-empty batch, the table holds, for every partition key of the batch,
\* exactly the batch's rows of that key.
C8_ReplacePostcondition ==
    (pc = "written" /\ rows # <<>>) =>
        \A r \in Rows : r.key \in BatchKeys(rows) => wh[r] = BatchCount(rows, r)

\* C9 (as claimed): Delete-before-insert ordering. An insert is only ever the
\* second statement of a loader call, issued after a DELETE that completed
\* and that named every partition value the insert writes to; after a failed
\* DELETE the call has raised, issued nothing else, and the table is as it
\* was when the call started.
C9_DeleteBeforeInsert ==
    /\ \A i \in DOMAIN log :
          log[i].op = "insert" =>
              /\ i = 2 /\ log[1].op = "delete" /\ log[1].ok
              /\ log[i].scope \subseteq log[1].scope
    /\ (log # <<>> /\ ~log[1].ok) =>
          (Len(log) = 1 /\ pc = "raised" /\ wh = wh0)

\* C10: Insert failure after delete. When the DELETE completed and the insert
\* failed, every partition the DELETE named is empty (for impressions these
\* are all the partition keys of the batch), the table is the table at the
\* start minus those partitions (no row of the batch was added), nothing
\* further was issued, and the run ends with status "error" and code 500.
C10_InsertFailure ==
    (Len(log) >= 2 /\ log[1].ok /\ ~log[2].ok) =>
        /\ Len(log) = 2
        /\ \A r \in Rows : r.key \in log[1].scope => wh[r] = 0
        /\ pipeline = "impressions" =>
              \A r \in Rows : r.key \in BatchKeys(rows) => wh[r] = 0
        /\ wh = DeleteFrom(wh0, log[1].scope)
        /\ pc \in {"raised", "done"}
        /\ pc = "done" => result = Fatal

C10_Witness ==
    /\ Len(log) = 2 /\ log[1].ok /\ ~log[2].ok
    /\ pc = "done" /\ result = Fatal
    /\ \E r \in Rows : wh0[r] > 0 /\ r.key \in log[1].scope

\* C11: Empty batch is a no-op. A loader called with an empty batch issues no
\* DELETE and no insert, does not raise, and the table stays as it was when
\* the call started.
C11_EmptyBatchNoOp ==
    (rows = <<>> /\ calls >= 1) =>
        /\ log = <<>>
        /\ wh = wh0
        /\ pc \in {"write", "written"}

C11_Witness ==
    /\ rows = <<>> /\ pc = "written" /\ calls = 2
    /\ \E r \in Rows : wh[r] > 0 /\ r.key = now

----------------------------------------------------------------------------
(* Per-location fetch failures *)

\* the step just taken was a per-location fetch request that failed
FetchFailedStep == entReqs' = entReqs + 1 /\ ~lastOk'

\* C12 (as claimed): when the metrics fetch or the keywords fetch of one location
\* fails, on any page, the location contributes nothing to the batch and the
\* run is not aborted.
C12_FetchFailureEmpty ==
    [][FetchFailedStep => (all_data' = all_data /\ pc' # "raised")]_vars

\* all_data after the step extends all_data before it, by records of location e
ExtendsBy(e) ==
    /\ Len(all_data') >= Len(all_data)
    /\ SubSeq(all_data', 1, Len(all_data)) = all_data
    /\ \A i \in (Len(all_data) + 1)..Len(all_data') : all_data'[i].ent = e

\* C13: a failure while fetching or normalizing the payload of one location
\* leaves the records of the other locations as they are and does not end the
\* run in the failed state; the driver goes on to the next location or, after
\* the last one, to the transform.
C13_FailureContained ==
    [][pc = "entities" =>
          /\ pc' \in {"entities", "transform"}
          /\ ExtendsBy(locations[idx])]_vars

----------------------------------------------------------------------------
(* The driver's phases *)

\* position of a control point in main: authenticate, list, per-location
\* loop, transform, load (delete, insert), return
Rank(p) ==
    CASE p = "start"     -> 0
      [] p = "listing"   -> 1
      [] p = "entities"  -> 2
      [] p = "transform" -> 3
      [] p = "write"     -> 4
      [] p = "insert"    -> 5
      [] p = "written"   -> 6
      [] p = "raised"    -> 7
      [] p = "done"      -> 8

\* the step just taken ended the run's normal course: an exception reached
\* main's except clause, or main returned the error for an empty listing
EntersFailed ==
    \/ pc' = "raised" /\ pc # "raised"
    \/ pc' = "done" /\ pc # "done" /\ result' = NoEnts

\* C14 (as claimed): the phases are passed in order, and the failed state is
\* entered only while authenticating or listing, never from the per-location
\* loop or from loading.
C14_FailedOnlyEarly ==
    [][/\ Rank(pc') >= Rank(pc)
       /\ EntersFailed => pc \in {"start", "listing"}]_vars

\* the loader has been called, or main is past the point of calling it: the
\* control point is at or after the call, or the run ended after it (it
\* returned success, which only follows the call, or the loader raised)
LoaderReached ==
    \/ log # <<>>
    \/ pc \in {"write", "insert", "written"}
    \/ pc = "done" /\ result = Success

\* C15: Loader invoked once, last. In every run the loader issues at most one
\* DELETE followed by at most one insert, and it is reached only when the
\* fetch and normalize steps of every listed location have ended; until then
\* the table is as it was at the start of the run.
C15_LoaderOnceLast ==
    /\ Len(log) <= 2
    /\ log # <<>> => log[1].op = "delete"
    /\ Len(log) = 2 => log[2].op = "insert"
    /\ LoaderReached =>
          /\ processed = Len(locations)
          /\ pipeline = "keywords" => idx > Len(all_data)
          /\ pipeline = "status" => idx > Len(locations)
    /\ ~LoaderReached /\ pc \notin {"raised", "done"} => wh = wh0 /\ log = <<>>

\* a run over two locations has loaded its batch with one DELETE and one insert
C15_Witness ==
    /\ pc = "done" /\ result = Success
    /\ Len(locations) = 2 /\ processed = 2
    /\ Len(log) = 2 /\ log[2].ok
    /\ wh # wh0

----------------------------------------------------------------------------
(* Concurrent loader calls *)

\* call p has inserted its batch without error and is about to report success,
\* and a row of its batch is not in the table
Missing(p) ==
    /\ cpc[p] = "written"
    /\ \E r \in Rows : wh[r] < BatchCount(crows[p], r)

\* call q's DELETE has run to its end without error, and it named a partition
\* of p's batch
DeletedUnder(q, p) ==
    /\ cdel[q]
    /\ crows[q] # <<>>
    /\ DeleteScope(pipeline, crows[q], now) \cap BatchKeys(crows[p]) # {}

\* C16: Concurrent writers are unsafe. A call that is reporting success has
\* rows missing from the table only when calls are not serialized and the
\* other call has completed a DELETE on a partition of its batch; with at
\* most one call active at a time this never happens.
C16_SerialSafe ==
    \A p \in Procs :
        Missing(p) =>
            /\ ~exclusive
            /\ \E q \in Procs \ {p} : DeletedUnder(q, p)

\* interleaved calls: call 1 is reporting success, call 2 has just deleted the
\* partition they share and has not inserted yet, and call 1's row is gone
C16_Witness ==
    /\ ~exclusive
    /\ Missing(1)
    /\ cpc[2] = "insert"
    /\ DeletedUnder(2, 1)

----------------------------------------------------------------------------
(* impressions rows *)

\* the positions of the payload that carry metric m on date d
PointsOf(payload, d, m) ==
    {i \in DOMAIN payload : payload[i].date = d /\ payload[i].metric = m}

\* the value the payload gives for (d, m): that of the last dated value for
\* the pair, 0 when the pair never appears or the value is missing
ExpectedValue(payload, d, m) ==
    IF PointsOf(payload, d, m) = {} THEN 0
    ELSE LET last == CHOOSE i \in PointsOf(payload, d, m) :
                         \A j \in PointsOf(payload, d, m) : j <= i
         IN  IF payload[last].value.form = "number" THEN payload[last].value.n ELSE 0

\* C17: Normalization zero-fill. The output has exactly one row for every
\* date of the payload and no other row, and every tracked metric column of
\* a row equals the payload's value for that date and metric, or 0 when the
\* payload has none.
C17_ZeroFill ==
    npc = "returned" =>
        /\ \A d \in Dates :
              Cardinality({i \in DOMAIN nout : nout[i].date = d}) =
                  (IF \E i \in DOMAIN nin : nin[i].date = d THEN 1 ELSE 0)
        /\ \A i \in DOMAIN nout : \A m \in Metrics :
              Column(nout[i], m) = ExpectedValue(nin, nout[i].date, m)

\* calls on date 1 only, bookings on date 2 only: two rows, each with the
\* other metric at 0
C17_Witness ==
    /\ npc = "returned"
    /\ nin = <<[metric |-> "CALL_CLICKS", date |-> 1,
                 value |-> [form |-> "number", n |-> 1]],
               [metric |-> "BUSINESS_BOOKINGS", date |-> 2,
                 value |-> [form |-> "number", n |-> 1]]>>
    /\ Len(nout) = 2
    /\ nout[1].date = 1 /\ nout[1].call_clicks = 1 /\ nout[1].bookings = 0
    /\ nout[2].date = 2 /\ nout[2].call_clicks = 0 /\ nout[2].bookings = 1

\* C18: Derived totals. In every row total_impressions is the sum of the four
\* impressions columns and total_actions is the sum of website_clicks,
\* call_clicks, direction_requests and conversations.
C18_DerivedTotals ==
    \A i \in DOMAIN nout :
        /\ nout[i].total_impressions =
              nout[i].impressions_desktop_maps + nout[i].impressions_desktop_search +
              nout[i].impressions_mobile_maps + nout[i].impressions_mobile_search
        /\ nout[i].total_actions =
              nout[i].website_clicks + nout[i].call_clicks +
              nout[i].direction_requests + nout[i].conversations

\* a row with a booking and a website click: the booking is not an action
C18_Witness ==
    /\ npc = "returned"
    /\ \E i \in DOMAIN nout :
          /\ nout[i].bookings > 0
          /\ nout[i].website_clicks > 0
          /\ nout[i].total_actions = nout[i].website_clicks

----------------------------------------------------------------------------
(* status rows *)

\* the decision table of the status collector
StatusTable(verified, published) ==
    CASE verified /\ published   -> "ACTIVE - Verified & Published"
      [] verified /\ ~published  -> "CLAIMED - Not Yet Published"
      [] ~verified /\ published  -> "PUBLISHED - Not Claimed"
      [] ~verified /\ ~published -> "INACTIVE - Not Claimed/Published"

\* C19: Status decision table. With verified the hasVoiceOfMerchant flag and
\* published the presence of a non-empty maps URI, overall_status is the
\* table's entry for (verified, published), and is_verified and is_published
\* are the two booleans.
C19_StatusTable ==
    npc = "returned" =>
        LET verified  == nin.metadata.hasVoiceOfMerchant = "true"
            published == nin.metadata.mapsUri = "text"
        IN  /\ nout.overall_status = StatusTable(verified, published)
            /\ nout.is_verified = verified
            /\ nout.is_published = published

\* a verified location whose mapsUri is the empty string: claimed, not published
C19_Witness ==
    /\ npc = "returned"
    /\ nin.metadata.hasVoiceOfMerchant = "true"
    /\ nin.metadata.mapsUri = "empty"
    /\ nout.overall_status = "CLAIMED - Not Yet Published"
    /\ nout.is_verified /\ ~nout.is_published

----------------------------------------------------------------------------
(* keyword rows *)

\* the record's impression count, 0 when it has none that is a number
ResolvedCount(rec) ==
    IF rec.insightsValue.form = "value" THEN rec.insightsValue.n ELSE 0

\* C20 (as claimed): Keyword filtering. The output has one row for exactly
\* the input records with a non-zero resolved impression count and a keyword
\* string that can be resolved (the record names a keyword text, plain or
\* under 'string'), in input order, each with the record's keyword and count;
\* no input makes the transform raise.
C20_KeywordFiltering ==
    LET resolvable(rec) == rec.searchKeyword.form \in {"dict", "plain"}
        kept == {i \in DOMAIN nin :
                    ResolvedCount(nin[i]) # 0 /\ resolvable(nin[i])}
    IN  npc # "ready" =>
            /\ npc = "returned"
            /\ Len(nout) = Cardinality(kept)
            /\ \A i \in kept :
                  LET j == Cardinality({k \in kept : k <= i})
                  IN  /\ nout[j].keyword = nin[i].searchKeyword.s
                      /\ nout[j].impressions = nin[i].insightsValue.n

\* C21 (as claimed): Status rows and rating default. The loop body yields one row for the
\* location and never raises. When no rating could be resolved (no place id,
\* no API key, request error, status other than OK, no rating in the result)
\* the row has rating 0 and has_rating false; otherwise has_rating is true
\* and rating is the looked-up value.
C21_RatingDefault ==
    npc # "ready" =>
        /\ npc = "returned"
        /\ LET resolved == /\ nin.metadata.placeId = "text"
                            /\ nin.api_key
                            /\ nin.places.kind = "ok"
                            /\ nin.places.rated
           IN  /\ nout.has_rating = resolved
               /\ nout.rating = (IF resolved THEN nin.places.rating ELSE 0)

----------------------------------------------------------------------------
(* Authentication *)

\* no listing request, no per-location request, no DELETE and no insert has
\* been issued in this run
NothingIssued == reqs = <<>> /\ entReqs = 0 /\ log = <<>> /\ wh = wh0

\* C22: Authentication failure is fatal and early. Nothing is issued before
\* the credential is obtained; when obtaining it fails, the only step left is
\* the return of status "error" with code 500, and no listing request, no
\* per-location request and no DELETE or insert is ever issued.
C22_AuthFailureEarly ==
    /\ [](pc = "start" => NothingIssued /\ result = NoResult)
    /\ [][/\ (pc = "start" /\ pc' # "listing") => (pc' = "raised" /\ NothingIssued')
          /\ (pc = "raised" /\ NothingIssued) =>
                (pc' = "done" /\ result' = Fatal /\ NothingIssued')
          /\ pc = "done" => UNCHANGED <<pc, result, reqs, entReqs, log, wh>>]_vars

\* authentication failed over a table that holds rows: code 500, nothing issued
C22_Witness ==
    /\ pc = "done" /\ result = Fatal
    /\ NothingIssued
    /\ \E r \in Rows : wh[r] > 0

----------------------------------------------------------------------------
(* Values that are not numbers *)

\* C23: Unparseable numeric field defaults to 0. Normalizing a time-series
\* payload never raises: a metric value that is not a number is taken as 0
\* and the rows are produced as for any other payload.
C23_UnparseableIsZero ==
    npc # "ready" =>
        /\ npc = "returned"
        /\ \A d \in {nin[i].date : i \in DOMAIN nin} :
              \E j \in DOMAIN nout :
                  /\ nout[j].date = d
                  /\ \A m \in Metrics : Column(nout[j], m) = ExpectedValue(nin, d, m)

----------------------------------------------------------------------------
(* Pagination termination *)

\* the response to a request with cursor c has no cursor, or the request fails
Stops(c) ==
    \/ PageOf(c) = remFail
    \/ PageOf(c) >= remK

\* C24: Pagination termination. The fetch returns at the first request whose
\* response has no continuation cursor or which fails, not before and not
\* after; once returned it issues no request; and against a remote that ends
\* or fails after finitely many pages it eventually returns.
C24_PaginationTerminates ==
    /\ [](/\ \A j \in 1..(Len(reqs) - 1) : ~Stops(reqs[j])
          /\ reqs # <<>> => (pc = "returned" <=> Stops(reqs[Len(reqs)]))
          /\ reqs = <<>> => pc = "fetching")
    /\ [][pc = "returned" => reqs' = reqs]_vars
    /\ <>(pc = "returned")

\* the fetch has returned after a second page without cursor
C24_Witness ==
    /\ pc = "returned"
    /\ remFail = 0 /\ remK = 2
    /\ Len(reqs) = 2 /\ Stops(reqs[2]) /\ ~Stops(reqs[1])

----------------------------------------------------------------------------
(* The summary of a successful run *)

\* the number of rows this run has added to the table
RowsInserted ==
    IF Len(log) = 2 /\ log[2].ok THEN Len(rows) ELSE 0

\* the table is the table at the start of the run, less what the run's
\* DELETE named, plus the rows the run inserted
TableAfterRun ==
    IF log = <<>> THEN wh = wh0
    ELSE wh = InsertInto(DeleteFrom(wh0, log[1].scope), rows)

\* the locations that yielded at least one record
LocationsWithRecords == {all_data[i].ent : i \in DOMAIN all_data}

\* the entries of the listing whose location yielded at least one record; a
\* location listed once is counted once, so that the two counts agree unless
\* the listing named a location more than once
ListedWithRecords == {i \in DOMAIN locations : locations[i] \in LocationsWithRecords}

----------------------------------------------------------------------------
(* One row per location and date *)

\* C26 (as claimed): At most one row per (entity, date). No two rows of an
\* impressions batch carry the same location name and the same date.
C26_OneRowPerEntityDate ==
    pipeline = "impressions" =>
        \A i, j \in DOMAIN rows : rows[i] = rows[j] => i = j

----------------------------------------------------------------------------
(* Errors while listing *)

\* C27: Listing errors are never reported as code 500. No step of the
\* listing raises or returns code 500. When the request for page remFail
\* fails, the run goes on with the locations of the pages before it: with
\* none, it returns status "error" with code 400; with some, it does not
\* return code 400 and goes on to the per-location steps and the load.
C27_ListingErrorNot500 ==
    /\ [][pc = "listing" =>
            /\ pc' \in {"listing", "entities", "transform", "done"}
            /\ result' \in {NoResult, NoEnts}]_vars
    /\ []((remFail > 0 /\ ListingReturned) =>
            /\ locations = ItemsUpTo(remFail - 1)
            /\ locations = <<>> => (pc = "done" /\ result = NoEnts)
            /\ locations # <<>> => result # NoEnts)

\* the second listing request failed, and the run loaded rows for the one
\* location of the first page and returned success
C27_Witness ==
    /\ remFail = 2 /\ remN = 1
    /\ Len(locations) = 1
    /\ pc = "done" /\ result = Success
    /\ Len(log) = 2 /\ log[2].ok /\ rows # <<>>

----------------------------------------------------------------------------
(* A keywords run without valid rows *)

\* the keywords main is past its transform with an empty batch and has not failed
KwNothingToWrite ==
    /\ pipeline = "keywords"
    /\ rows = <<>>
    /\ pc = "written" \/ (pc = "done" /\ result = Success)

\* C28: Keyword run with no valid rows leaves the warehouse untouched. When
\* locations are listed and the transform yields no row, the keywords main
\* goes straight to its return: no DELETE and no insert is issued, the table
\* is as it was at the start of the run, and the run returns status
\* "success" with code 200 and keywords_written = 0.
C28_NoValidRows ==
    /\ [](KwNothingToWrite =>
            /\ Len(locations) > 0
            /\ log = <<>>
            /\ wh = wh0
            /\ pc = "done" => summary.keywords_written = 0)
    /\ [][(pipeline = "keywords" /\ rows = <<>>) =>
            /\ (pc = "transform" /\ idx > Len(all_data) /\ pc' # pc) => pc' = "written"
            /\ pc = "written" => (pc' = "done" /\ result' = Success)]_vars

\* records were fetched, none was valid, and the rows of today's collection
\* date from an earlier run are still in the table after the run
C28_Witness ==
    /\ KwNothingToWrite /\ pc = "done"
    /\ all_data # <<>>
    /\ \E r \in Rows : r.key = now /\ wh[r] > 0

============================================================================
